---------------------------- MODULE Spec2Model ----------------------------
(***************************************************************************)
(* Model of the sensor-telemetry pipeline:                                 *)
(*   - code/ingest.py        the validator / normaliser (module-level loop)*)
(*   - code/bigtable_load.py iso_to_micros, make_row_key, b, load_jsonl    *)
(*                                                                         *)
(* Three specifications share the module:                                  *)
(*   SpecKey     the row-key encoder applied to pairs of timestamps        *)
(*   SpecIngest  one run of ingest.py over an input file                   *)
(*   SpecLoad    one call of load_jsonl over an input file                 *)
(*                                                                         *)
(* Representation.                                                         *)
(*   Text is a sequence of byte codes (32 = space, 35 = '#', 48..57 =      *)
(*   '0'..'9', ...), so that keys compare as Python bytes compare.         *)
(*   TLC's integers are 32 bits wide, Python's are unbounded and its       *)
(*   floats are IEEE doubles: a large integer is a vector of four base-10^6*)
(*   limbs, least significant first, and a double is an exact pair         *)
(*   (53-bit mantissa m, scale s) standing for m / 2^s.                    *)
(***************************************************************************)
EXTENDS Integers, Sequences, FiniteSets, TLC

VARIABLES
  \* ---- SpecKey
  kpc,            \* "pick" | "encode" | "done"
  kT1, kT2,       \* two ISO-8601 timestamp strings (see IsoStr)
  kKey1, kKey2,   \* the row keys built for them
  \* ---- SpecIngest (ingest.py)
  ipc,            \* "run" | "done" | "crash" (an exception left the loop)
  ipos,           \* number of lines read from INPUT_PATH
  outp,           \* the records written to OUTPUT_PATH
  ilog,           \* per line read: the line and what became of it
  time_now_utc,   \* ingest.py:13, the snapshot taken when the script starts
  clock,          \* the wall clock, which goes on during the run
  \* ---- SpecLoad (load_jsonl)
  lpc,            \* "loop" | "flush" | "done" | "raised" (an exception left load_jsonl)
  i,              \* number of lines the for loop has taken from the file
  limit,          \* the limit argument: NoLimit or a number
  written, skipped,
  batch,          \* rows queued in the MutationsBatcher
  store,          \* the table: a set of cells
  summary,        \* the "[done]" line printed, or NoSummary
  cur,            \* the line the loop body last ran on, and whether its flush raised
  nonblank,       \* number of non-blank lines the loop body has run on
  applied,        \* the rows the table has applied, in order
  flushedN        \* number of rows a successful flush has sent

kvars == <<kpc, kT1, kT2, kKey1, kKey2>>
ivars == <<ipc, ipos, outp, ilog, time_now_utc, clock>>
lvars == <<lpc, i, limit, written, skipped, batch, store, summary, cur, nonblank,
           applied, flushedN>>
vars == <<kvars, ivars, lvars>>

-----------------------------------------------------------------------------
(* Bounds of the model *)

\* microsecond fields 0..MaxMicro are drawn for the timestamps of SpecKey
MaxMicro == 250
\* T2 is drawn up to MaxDelta microseconds after T1
MaxDelta == 2
\* ingest.py reads at most MaxILines lines
MaxILines == 2
\* load_jsonl reads at most MaxLines lines
MaxLines == 3
\* the limit argument is None or 1..MaxLimit
MaxLimit == 2
\* the batcher's flush_count; bigtable_load.py:60 passes 1000, which the model
\* scales down so that a run of MaxLines lines reaches it
FlushCount == 2

-----------------------------------------------------------------------------
(* Text as byte codes *)

\* ' ' (what str.strip removes), '#', '.', '-'
SP == 32
HASH == 35
DOT == 46
MINUS == 45

Digit(d) == 48 + d

RECURSIVE Dec(_)
\* str(n) for a natural number n
Dec(n) == IF n < 10 THEN <<Digit(n)>> ELSE Dec(n \div 10) \o <<Digit(n % 10)>>

RECURSIVE BytesLess(_, _)
\* a < b for Python bytes: lexicographic, a proper prefix first
BytesLess(a, c) ==
  IF c = <<>> THEN FALSE
  ELSE IF a = <<>> THEN TRUE
  ELSE IF Head(a) # Head(c) THEN Head(a) < Head(c)
  ELSE BytesLess(Tail(a), Tail(c))

-----------------------------------------------------------------------------
(* Unbounded naturals: four limbs in base 10^6, least significant first *)

\* bigtable_load.py:23, the factor 1_000_000 (microseconds per second); it is
\* also the limb base, so that division by it is a limb shift
US_PER_SEC == 1000000

BigZero == <<0, 0, 0, 0>>

BigOfSecMicro(sec, micro) ==
  <<micro, sec % US_PER_SEC, sec \div US_PER_SEC, 0>>

BigCmp(x, y) ==
  IF x[4] # y[4] THEN (IF x[4] < y[4] THEN -1 ELSE 1)
  ELSE IF x[3] # y[3] THEN (IF x[3] < y[3] THEN -1 ELSE 1)
  ELSE IF x[2] # y[2] THEN (IF x[2] < y[2] THEN -1 ELSE 1)
  ELSE IF x[1] # y[1] THEN (IF x[1] < y[1] THEN -1 ELSE 1)
  ELSE 0

\* x * k for a small k (k <= 1024)
BigMulSmall(x, k) ==
  LET a1 == k * x[1]
      a2 == k * x[2] + a1 \div US_PER_SEC
      a3 == k * x[3] + a2 \div US_PER_SEC
      a4 == k * x[4] + a3 \div US_PER_SEC
  IN <<a1 % US_PER_SEC, a2 % US_PER_SEC, a3 % US_PER_SEC, a4>>

\* floor(x / d) and x mod d for a small d (d <= 2048)
BigDivSmall(x, d) ==
  LET v4 == x[4]
      v3 == (v4 % d) * US_PER_SEC + x[3]
      v2 == (v3 % d) * US_PER_SEC + x[2]
      v1 == (v2 % d) * US_PER_SEC + x[1]
  IN [q |-> <<v1 \div d, v2 \div d, v3 \div d, v4 \div d>>, r |-> v1 % d]

BigDbl(x) == BigMulSmall(x, 2)

BigInc(x) ==
  LET a1 == x[1] + 1
      a2 == x[2] + a1 \div US_PER_SEC
      a3 == x[3] + a2 \div US_PER_SEC
      a4 == x[4] + a3 \div US_PER_SEC
  IN <<a1 % US_PER_SEC, a2 % US_PER_SEC, a3 % US_PER_SEC, a4>>

\* x - y for x >= y
BigSub(x, y) ==
  LET d1 == x[1] - y[1]
      b1 == IF d1 < 0 THEN 1 ELSE 0
      d2 == x[2] - y[2] - b1
      b2 == IF d2 < 0 THEN 1 ELSE 0
      d3 == x[3] - y[3] - b2
      b3 == IF d3 < 0 THEN 1 ELSE 0
      d4 == x[4] - y[4] - b3
  IN <<d1 + b1 * US_PER_SEC, d2 + b2 * US_PER_SEC, d3 + b3 * US_PER_SEC, d4>>

BigOdd(x) == x[1] % 2 = 1

\* x * 2^n, ten bits at a time
RECURSIVE BigShl(_, _)
BigShl(x, n) ==
  IF n >= 10 THEN BigShl(BigMulSmall(x, 1024), n - 10)
  ELSE BigMulSmall(x, 2 ^ n)

\* floor(x / 2^n), ten bits at a time
RECURSIVE BigShr(_, _)
BigShr(x, n) ==
  IF n >= 10 THEN BigShr(BigDivSmall(x, 1024).q, n - 10)
  ELSE BigDivSmall(x, 2 ^ n).q

\* the six decimal digits of one limb
Limb6(v) ==
  <<Digit(v \div 100000), Digit((v \div 10000) % 10), Digit((v \div 1000) % 10),
    Digit((v \div 100) % 10), Digit((v \div 10) % 10), Digit(v % 10)>>

RECURSIVE StripZeros(_)
StripZeros(s) ==
  IF Len(s) > 1 /\ Head(s) = Digit(0) THEN StripZeros(Tail(s)) ELSE s

RECURSIVE PadZeros(_, _)
PadZeros(s, w) == IF Len(s) >= w THEN s ELSE PadZeros(<<Digit(0)>> \o s, w)

\* str(x) for a big natural
BigDec(x) == StripZeros(Dec(x[4]) \o Limb6(x[3]) \o Limb6(x[2]) \o Limb6(x[1]))

-----------------------------------------------------------------------------
(* IEEE-754 doubles, as far as iso_to_micros uses them *)

\* 2^52 and 2^53: a double's mantissa m satisfies TWO52 <= m < TWO53
TWO52 == <<370496, 599627, 4503, 0>>
TWO53 == <<740992, 199254, 9007, 0>>
\* 2^52 * 10^6
TWO52E6 == <<0, 370496, 599627, 4503>>

FloatZero == [m |-> BigZero, s |-> 0]

\* round-to-nearest-even of q + (fraction), then renormalise the mantissa
RoundEven(q, up, s) ==
  LET q1 == IF up THEN BigInc(q) ELSE q
  IN IF BigCmp(q1, TWO53) = 0 THEN [m |-> TWO52, s |-> s - 1]
     ELSE [m |-> q1, s |-> s]

RECURSIVE ScaleUp(_, _)
\* x * 2^s for the least s with x * 2^s >= 2^52 * 10^6
ScaleUp(x, s) ==
  IF BigCmp(x, TWO52E6) >= 0 THEN [x |-> x, s |-> s]
  ELSE IF BigCmp(BigMulSmall(x, 1024), TWO52E6) < 0
       THEN ScaleUp(BigMulSmall(x, 1024), s + 10)
       ELSE ScaleUp(BigDbl(x), s + 1)

\* int / int true division by 10**6, correctly rounded (timedelta.total_seconds
\* behind datetime.timestamp): the double nearest n / 10^6, for n < 2^52 * 10^6
TrueDivE6(n) ==
  IF n = BigZero THEN FloatZero
  ELSE LET sc == ScaleUp(n, 0)
           q == <<sc.x[2], sc.x[3], sc.x[4], 0>>
           r == sc.x[1]
           up == r > 500000 \/ (r = 500000 /\ BigOdd(q))
       IN RoundEven(q, up, sc.s)

\* float * 1_000_000, correctly rounded: the exact product p = m * 10^6 lies in
\* [2^52 * 10^6, 2^53 * 10^6), so 19 or 20 of its bits are rounded away
FloatMulE6(x) ==
  IF x.m = BigZero THEN FloatZero
  ELSE LET p == <<0, x.m[1], x.m[2], x.m[3]>>
           lo == BigDivSmall(p, 1024)
           t == IF BigCmp(BigDivSmall(lo.q, 1024).q, TWO52) >= 0 THEN 20 ELSE 19
           d == IF t = 20 THEN 1024 ELSE 512
           hi == BigDivSmall(lo.q, d)
           rnd == hi.r >= d \div 2
           sticky == hi.r % (d \div 2) # 0 \/ lo.r # 0
           up == rnd /\ (sticky \/ BigOdd(hi.q))
       IN RoundEven(hi.q, up, x.s - t)

\* int(x) for a double x >= 0: truncation
FloatToInt(x) ==
  IF x.s >= 0 THEN BigShr(x.m, x.s) ELSE BigShl(x.m, 0 - x.s)

-----------------------------------------------------------------------------
(* JSON values, as json.loads returns them *)

\* float: finite values are kept in thousandths, k is "fin", "nan", "inf" or "-inf"
Fin(milli) == [k |-> "fin", milli |-> milli]
NaN == [k |-> "nan", milli |-> 0]
PosInf == [k |-> "inf", milli |-> 0]
NegInf == [k |-> "-inf", milli |-> 0]

\* an ISO-8601 date-time string: the reading sec (seconds from 1970-01-01T00:00:00)
\* and micro it spells, and its zone: "Z", "naive", or "offset" with off minutes
\* east of UTC
IsoStr(sec, micro, tz, off) ==
  [t |-> "iso", sec |-> sec, micro |-> micro, tz |-> tz, off |-> off]
IsoZ(sec, micro) == IsoStr(sec, micro, "Z", 0)

JNull == [t |-> "null"]
JInt(n) == [t |-> "int", n |-> n]
JFloat(x) == [t |-> "float", x |-> x]
\* a string that is no ISO date-time, by its bytes
JStr(s) == [t |-> "str", s |-> s]
\* a list of strings, by the set of its elements
JList(names) == [t |-> "list", names |-> names]
\* an object, as a function from its keys
JObj(fields) == [t |-> "obj", fields |-> fields]

Keys(rec) == DOMAIN rec.fields
\* dict.get(key), with None for a missing key
Get(rec, key) == IF key \in Keys(rec) THEN rec.fields[key] ELSE JNull

S_s1 == <<115, 49>>
S_s2 == <<115, 50>>
S_abc == <<97, 98, 99>>
S_None == <<78, 111, 110, 101>>
S_nan == <<110, 97, 110>>
S_inf == <<105, 110, 102>>

RECURSIVE FracDigits(_)
\* the digits of a fraction given in thousandths, as repr(float) prints them
FracDigits(m) ==
  IF m % 100 = 0 THEN <<Digit(m \div 100)>>
  ELSE IF m % 10 = 0 THEN <<Digit(m \div 100), Digit((m \div 10) % 10)>>
  ELSE <<Digit(m \div 100), Digit((m \div 10) % 10), Digit(m % 10)>>

FloatRepr(x) ==
  CASE x.k = "nan" -> S_nan
    [] x.k = "inf" -> S_inf
    [] x.k = "-inf" -> <<MINUS>> \o S_inf
    [] OTHER -> IF x.milli < 0
                THEN <<MINUS>> \o Dec((0 - x.milli) \div 1000) \o <<DOT>>
                       \o FracDigits((0 - x.milli) % 1000)
                ELSE Dec(x.milli \div 1000) \o <<DOT>> \o FracDigits(x.milli % 1000)

\* The bytes of an ISO string. The model spells the date and time of day as one
\* count of seconds, then the six microsecond digits and the zone ("Z", nothing,
\* or "+" and the minutes); the spelling is one-to-one, and load_jsonl only
\* copies these bytes into a cell.
IsoBytes(v) ==
  Dec(v.sec) \o <<DOT>> \o Limb6(v.micro)
    \o (CASE v.tz = "Z" -> <<90>>
          [] v.tz = "naive" -> <<>>
          [] OTHER -> <<43>> \o Dec(v.off))

\* str(v)
PyStr(v) ==
  CASE v.t = "str" -> v.s
    [] v.t = "iso" -> IsoBytes(v)
    [] v.t = "int" -> IF v.n < 0 THEN <<MINUS>> \o Dec(0 - v.n) ELSE Dec(v.n)
    [] v.t = "float" -> FloatRepr(v.x)
    [] v.t = "null" -> S_None
    [] OTHER -> <<91, 93>>

\* bigtable_load.py b(x): str(x).encode("utf-8")
b(x) == PyStr(x)

RECURSIVE LStrip(_)
LStrip(s) == IF s # <<>> /\ Head(s) = SP THEN LStrip(Tail(s)) ELSE s

RECURSIVE RStrip(_)
RStrip(s) ==
  IF s # <<>> /\ s[Len(s)] = SP THEN RStrip(SubSeq(s, 1, Len(s) - 1)) ELSE s

\* str.strip
Strip(s) == RStrip(LStrip(s))

-----------------------------------------------------------------------------
(* bigtable_load.py: iso_to_micros and make_row_key *)

\* (2**63) - 1 = 9223372036854775807
MAX_TS_MICROS == <<775807, 36854, 223372, 9>>

Raised == [raised |-> TRUE, v |-> BigZero]
Returned(v) == [raised |-> FALSE, v |-> v]

\* falsy values raise ValueError, other non-strings AttributeError, strings that
\* are no ISO date-time ValueError; "Z" is read as +00:00 and a naive date-time
\* as UTC; the result is int(dt.timestamp() * 1_000_000), in double arithmetic
iso_to_micros(ts) ==
  IF ts.t # "iso" THEN Raised
  ELSE LET utcsec == IF ts.tz = "offset" THEN ts.sec - 60 * ts.off ELSE ts.sec
           total == BigOfSecMicro(utcsec, ts.micro)
       IN Returned(FloatToInt(FloatMulE6(TrueDivE6(total))))

\* f"{sensor_id}#{rev:019d}".encode("utf-8"), for 0 <= event_micros <= MAX_TS_MICROS
make_row_key(sensor_id, event_micros) ==
  LET rev == BigSub(MAX_TS_MICROS, event_micros)
  IN PyStr(sensor_id) \o <<HASH>> \o PadZeros(BigDec(rev), 19)

-----------------------------------------------------------------------------
(* SpecKey: the encoder applied to two timestamps T1 < T2 of one sensor *)

NoKey == <<>>
NoTs == JNull

\* 1970-01-01, 2004-06-01 and 2024-01-01, 00:00:00 UTC, in seconds
KeySecs == {0, 1086048000, 1704067200}

KeySensor == JStr(S_s1)

IdleKey ==
  /\ kpc = "idle" /\ kT1 = NoTs /\ kT2 = NoTs /\ kKey1 = NoKey /\ kKey2 = NoKey

KInit ==
  /\ kpc = "pick"
  /\ kT1 \in { IsoStr(sec, micro, tz, 0) :
                 sec \in KeySecs, micro \in 0..MaxMicro, tz \in {"Z", "naive"} }
  /\ kT2 = NoTs
  /\ kKey1 = NoKey
  /\ kKey2 = NoKey

\* T2 is a later instant of the same second
KPick ==
  /\ UNCHANGED <<ivars, lvars>>
  /\ kpc = "pick"
  /\ \E d \in 1..MaxDelta : kT2' = IsoZ(kT1.sec, kT1.micro + d)
  /\ kpc' = "encode"
  /\ UNCHANGED <<kT1, kKey1, kKey2>>

\* load_jsonl lines 76 and 78 on each of the two
KEncode ==
  /\ UNCHANGED <<ivars, lvars>>
  /\ kpc = "encode"
  /\ kKey1' = make_row_key(KeySensor, iso_to_micros(kT1).v)
  /\ kKey2' = make_row_key(KeySensor, iso_to_micros(kT2).v)
  /\ kpc' = "done"
  /\ UNCHANGED <<kT1, kT2>>

-----------------------------------------------------------------------------
(* ingest.py *)

\* ingest.py:10-11, in thousandths of a degree
MAX_TEMP_C == 45000
MIN_TEMP_C == 25000

required_fields == {"event_timestamp", "sensor_id", "heart_rate", "body_temperature"}

IsDigit(c) == c >= 48 /\ c <= 57

RECURSIVE DigitsVal(_)
DigitsVal(s) == IF s = <<>> THEN 0 ELSE 10 * DigitsVal(SubSeq(s, 1, Len(s) - 1))
                                       + (s[Len(s)] - 48)

AllDigits(s) == s # <<>> /\ \A n \in 1..Len(s) : IsDigit(s[n])

NoFloat == [raised |-> TRUE, x |-> NaN]
SomeFloat(x) == [raised |-> FALSE, x |-> x]

\* float(s) for a string s: "nan", "inf" and "-inf" are floats like any other;
\* of the decimal spellings the model reads digits with up to three decimals
ParseFloat(s0) ==
  LET s == Strip(s0)
      dots == { n \in 1..Len(s) : s[n] = DOT }
  IN CASE s = S_nan -> SomeFloat(NaN)
       [] s = S_inf -> SomeFloat(PosInf)
       [] s = <<MINUS>> \o S_inf -> SomeFloat(NegInf)
       [] AllDigits(s) -> SomeFloat(Fin(1000 * DigitsVal(s)))
       [] OTHER ->
            IF Cardinality(dots) # 1 THEN NoFloat
            ELSE LET d == CHOOSE n \in dots : TRUE
                     ip == SubSeq(s, 1, d - 1)
                     fp == SubSeq(s, d + 1, Len(s))
                 IN IF AllDigits(ip) /\ AllDigits(fp) /\ Len(fp) <= 3
                    THEN SomeFloat(Fin(1000 * DigitsVal(ip)
                           + DigitsVal(fp \o SubSeq(<<48, 48, 48>>, 1, 3 - Len(fp)))))
                    ELSE NoFloat

\* float(v), ingest.py:40 and 47 (v is not None there)
ToFloat(v) ==
  CASE v.t = "int" -> SomeFloat(Fin(1000 * v.n))
    [] v.t = "float" -> SomeFloat(v.x)
    [] v.t = "str" -> ParseFloat(v.s)
    [] OTHER -> NoFloat

\* x < y on floats: every comparison with a NaN is False
FloatLess(x, y) ==
  CASE x.k = "nan" \/ y.k = "nan" -> FALSE
    [] x.k = "-inf" -> y.k # "-inf"
    [] y.k = "inf" -> x.k # "inf"
    [] x.k = "fin" /\ y.k = "fin" -> x.milli < y.milli
    [] OTHER -> FALSE

IsFinite(x) == x.k = "fin"

\* an instant is <<seconds, microseconds>> from the epoch, in UTC
InstantLess(a, c) == a[1] < c[1] \/ (a[1] = c[1] /\ a[2] < c[2])

\* ingest.py:54-57: a naive date-time is taken as UTC, an aware one converted
ToUtc(ts) == <<IF ts.tz = "offset" THEN ts.sec - 60 * ts.off ELSE ts.sec, ts.micro>>

\* k in record, ingest.py:27, for a record that is a container; the strings of
\* the model are shorter than any field name, so none contains one
Contains(record, k) ==
  CASE record.t = "obj" -> k \in Keys(record)
    [] record.t = "list" -> k \in record.names
    [] OTHER -> FALSE

\* the comparison made against the clock at the time the line is handled
IsFutureAtClock(dt) == InstantLess(clock, dt)

\* ingest.py:59
IsFuture(dt) == InstantLess(time_now_utc, dt)

\* ingest.py:66-73
normalized(record, dt, sensor_id, hr, temp) ==
  JObj([k \in {"event_timestamp", "sensor_id", "heart_rate", "body_temperature",
               "spO2", "battery_level"} |->
         CASE k = "event_timestamp" -> IsoZ(dt[1], dt[2])
           [] k = "sensor_id" -> JStr(sensor_id)
           [] k = "heart_rate" -> JFloat(hr)
           [] k = "body_temperature" -> JFloat(temp)
           [] k = "spO2" -> Get(record, "spO2")
           [] OTHER -> Get(record, "battery_level")])

Outcome(res, why, ev) == [res |-> res, why |-> why, ev |-> ev]

\* The body of the for loop, ingest.py:18-75, on one line. res is "blank" (line 20),
\* "skip" (a continue), "emit" (line 75) or "crash" (an exception no try catches).
Validate(line) ==
  IF line.k = "blank" THEN Outcome("blank", "blank", JNull)
  ELSE IF line.k = "garbage" THEN Outcome("skip", "parse_error", JNull)
  ELSE
    LET record == line.v IN
    IF record.t \notin {"obj", "list", "str"}
    THEN Outcome("crash", "line 27: TypeError, not iterable", JNull)
    ELSE IF ~ \A k \in required_fields : Contains(record, k)
    THEN Outcome("skip", "missing_field", JNull)
    ELSE IF record.t # "obj" \/ record.fields["event_timestamp"].t # "iso"
    THEN Outcome("skip", "bad_timestamp", JNull)
    ELSE
      LET ts == record.fields["event_timestamp"]
          hr == ToFloat(record.fields["heart_rate"])
          temp == ToFloat(record.fields["body_temperature"])
          dt == ToUtc(ts)
          sensor_id == Strip(PyStr(record.fields["sensor_id"]))
      IN
      IF record.fields["heart_rate"] = JNull \/ hr.raised
      THEN Outcome("skip", "bad_numeric", JNull)
      ELSE IF record.fields["body_temperature"] = JNull \/ temp.raised
      THEN Outcome("skip", "bad_numeric", JNull)
      ELSE IF FloatLess(temp.x, Fin(MIN_TEMP_C)) \/ FloatLess(Fin(MAX_TEMP_C), temp.x)
      THEN Outcome("skip", "temperature_out_of_range", JNull)
      ELSE IF IsFuture(dt)
      THEN Outcome("skip", "future_timestamp", JNull)
      ELSE IF sensor_id = <<>>
      THEN Outcome("skip", "empty_sensor_id", JNull)
      ELSE Outcome("emit", "ok", normalized(record, dt, sensor_id, hr.x, temp.x))

-----------------------------------------------------------------------------
(* SpecIngest: one run of ingest.py *)

\* the instant the script starts: 1970-01-01T00:02:00.000005Z
Start == <<120, 5>>

Blank == [k |-> "blank"]
Garbage == [k |-> "garbage"]
Json(v) == [k |-> "json", v |-> v]

S_72 == <<55, 50>>
S_37p1 == <<51, 55, DOT, 49>>

\* an object with the four required fields and more
Event(ts, sid, hr, temp, more) ==
  JObj(("event_timestamp" :> ts) @@ ("sensor_id" :> sid) @@ ("heart_rate" :> hr)
         @@ ("body_temperature" :> temp) @@ more)

NoMore == [k \in {} |-> JNull]

Without(rec, key) == JObj([k \in Keys(rec) \ {key} |-> rec.fields[k]])

AtStart == IsoZ(Start[1], Start[2])
GoodSensor == JStr(<<SP>> \o S_s1 \o <<SP>>)
GoodHr == JStr(S_72)
GoodTemp == JFloat(Fin(37100))

GoodEvent == Event(AtStart, GoodSensor, GoodHr, GoodTemp, NoMore)

IngestTimestamps ==
  { IsoZ(Start[1], Start[2] - 1), AtStart, IsoZ(Start[1], Start[2] + 1),
    IsoStr(Start[1], Start[2], "naive", 0), IsoStr(Start[1], Start[2] + 1, "naive", 0),
    IsoStr(Start[1] + 3600, Start[2], "offset", 60),
    IsoStr(Start[1] + 3600, Start[2] + 1, "offset", 60),
    JStr(S_abc), JInt(5), JNull }

IngestSensors ==
  { JStr(S_s1), JStr(<<SP, SP>>), JStr(<<>>), JInt(7), JNull }

IngestHeartRates ==
  { JFloat(Fin(72000)), JInt(72), JFloat(NaN), JStr(S_nan), JFloat(PosInf),
    JStr(<<MINUS>> \o S_inf), JNull, JStr(S_abc), JList({}) }

IngestTemperatures ==
  { JFloat(Fin(25000)), JFloat(Fin(45000)), JFloat(Fin(24999)), JFloat(Fin(45001)),
    JStr(S_37p1), JFloat(NaN), JStr(S_nan), JFloat(PosInf), JFloat(NegInf), JNull,
    JStr(S_abc) }

IngestOptional ==
  { "spO2" :> JInt(98), "spo2" :> JInt(97), "spO2" :> JFloat(Fin(98500)),
    ("spO2" :> JInt(98)) @@ ("spo2" :> JInt(97)),
    ("spO2" :> JNull) @@ ("spo2" :> JInt(97)),
    "battery_level" :> JInt(55),
    ("spo2" :> JInt(97)) @@ ("battery_level" :> JInt(55)) }

\* the lines the input file is made of
IngestLines ==
  { Blank, Garbage,
    Json(JInt(5)), Json(JFloat(Fin(1500))), Json(JNull), Json(JStr(S_abc)),
    Json(JList({})), Json(JList(required_fields)), Json(JObj(NoMore)) }
  \cup { Json(Without(GoodEvent, k)) : k \in required_fields }
  \cup { Json(Event(ts, GoodSensor, GoodHr, GoodTemp, NoMore)) : ts \in IngestTimestamps }
  \cup { Json(Event(AtStart, sid, GoodHr, GoodTemp, NoMore)) : sid \in IngestSensors }
  \cup { Json(Event(AtStart, GoodSensor, hr, GoodTemp, NoMore)) : hr \in IngestHeartRates }
  \cup { Json(Event(AtStart, GoodSensor, GoodHr, t, NoMore)) : t \in IngestTemperatures }
  \cup { Json(Event(AtStart, GoodSensor, GoodHr, GoodTemp, more)) : more \in IngestOptional }

IdleIngest ==
  /\ ipc = "idle" /\ ipos = 0 /\ outp = <<>> /\ ilog = <<>>
  /\ time_now_utc = Start /\ clock = Start

IInit ==
  /\ ipc = "run"
  /\ ipos = 0
  /\ outp = <<>>
  /\ ilog = <<>>
  /\ time_now_utc = Start      \* ingest.py:13
  /\ clock = Start

\* the clock goes on while a line is handled
Tick == clock' = <<clock[1], clock[2] + 1>>

Logged(line, o) == [line |-> line, res |-> o.res, ev |-> o.ev]

\* ingest.py:19-20
IBlank ==
  /\ UNCHANGED <<kvars, lvars>>
  /\ ipc = "run" /\ ipos < MaxILines
  /\ \E line \in IngestLines :
       /\ Validate(line).res = "blank"
       /\ ilog' = Append(ilog, Logged(line, Validate(line)))
  /\ ipos' = ipos + 1
  /\ Tick
  /\ UNCHANGED <<ipc, outp, time_now_utc>>

\* a continue of ingest.py:22-64
ISkip ==
  /\ UNCHANGED <<kvars, lvars>>
  /\ ipc = "run" /\ ipos < MaxILines
  /\ \E line \in IngestLines :
       /\ Validate(line).res = "skip"
       /\ ilog' = Append(ilog, Logged(line, Validate(line)))
  /\ ipos' = ipos + 1
  /\ Tick
  /\ UNCHANGED <<ipc, outp, time_now_utc>>

\* ingest.py:66-75
IEmit ==
  /\ UNCHANGED <<kvars, lvars>>
  /\ ipc = "run" /\ ipos < MaxILines
  /\ \E line \in IngestLines :
       /\ Validate(line).res = "emit"
       /\ ilog' = Append(ilog, Logged(line, Validate(line)))
       /\ outp' = Append(outp, Validate(line).ev)
  /\ ipos' = ipos + 1
  /\ Tick
  /\ UNCHANGED <<ipc, time_now_utc>>

\* an exception outside every try ends the script with a traceback
ICrash ==
  /\ UNCHANGED <<kvars, lvars>>
  /\ ipc = "run" /\ ipos < MaxILines
  /\ \E line \in IngestLines :
       /\ Validate(line).res = "crash"
       /\ ilog' = Append(ilog, Logged(line, Validate(line)))
  /\ ipos' = ipos + 1
  /\ ipc' = "crash"
  /\ Tick
  /\ UNCHANGED <<outp, time_now_utc>>

\* the for loop of ingest.py:17 runs out of lines
IEof ==
  /\ UNCHANGED <<kvars, lvars>>
  /\ ipc = "run"
  /\ ipc' = "done"
  /\ UNCHANGED <<ipos, outp, ilog, time_now_utc, clock>>

-----------------------------------------------------------------------------
(* bigtable_load.py: load_jsonl *)

NoRow == [raised |-> TRUE, key |-> NoKey, cells |-> {}, sid |-> JNull, ts |-> JNull]

Cell(fam, qual, val) == [fam |-> fam, qual |-> qual, val |-> val]

\* row.set_cell(fam, qual, b(rec[field])) when rec.get(field) is not None
CellIf(rec, field, fam, qual) ==
  IF Get(rec, field) # JNull THEN {Cell(fam, qual, b(rec.fields[field]))} ELSE {}

\* bigtable_load.py:86-88, rec.get("spO2", rec.get("spo2")): the second key is
\* read only when the first is missing
Spo2Of(rec) == IF "spO2" \in Keys(rec) THEN rec.fields["spO2"] ELSE Get(rec, "spo2")

\* bigtable_load.py:81-96, the cells set on the row of rec
RowCells(rec) ==
  CellIf(rec, "heart_rate", "v", "hr")
    \cup CellIf(rec, "body_temperature", "v", "temp")
    \cup (IF Spo2Of(rec) # JNull THEN {Cell("v", "spo2", b(Spo2Of(rec)))} ELSE {})
    \cup CellIf(rec, "battery_level", "d", "battery")
    \cup {Cell("m", "sensor_id", b(rec.fields["sensor_id"])),
          Cell("m", "event_timestamp", b(rec.fields["event_timestamp"]))}

\* .encode("utf-8") raises UnicodeEncodeError on a lone surrogate (U+D800..U+DFFF),
\* which json.loads builds from an escape such as "\ud800"
EncodeRaises(s) == \E n \in 1..Len(s) : s[n] >= 55296 /\ s[n] <= 57343

\* bigtable_load.py:72-96 on one non-blank line: the row it builds, or raised
\* when json.loads, rec[...], iso_to_micros or an encode raises
BuildRow(line) ==
  IF line.k # "json" THEN NoRow
  ELSE LET rec == line.v IN
    IF rec.t # "obj" THEN NoRow
    ELSE IF "sensor_id" \notin Keys(rec) \/ "event_timestamp" \notin Keys(rec) THEN NoRow
    ELSE LET event_micros == iso_to_micros(rec.fields["event_timestamp"]) IN
      IF event_micros.raised THEN NoRow
      ELSE LET key == make_row_key(rec.fields["sensor_id"], event_micros.v) IN
        IF EncodeRaises(key) \/ \E c \in RowCells(rec) : EncodeRaises(c.val) THEN NoRow
        ELSE [raised |-> FALSE,
              key |-> key,
              cells |-> RowCells(rec),
              sid |-> rec.fields["sensor_id"],
              ts |-> rec.fields["event_timestamp"]]

(* The table. ensure_table gives each family MaxVersionsGCRule(1): a cell keeps
   the one value written last. A stored cell is [key, fam, qual, val]. *)
SameCell(x, y) == x.key = y.key /\ x.fam = y.fam /\ x.qual = y.qual

\* a table whose families keep every version of a cell
WriteCellsKeepAll(st, new) == st \cup new

WriteCells(st, new) ==
  { x \in st : ~ \E y \in new : SameCell(x, y) } \cup new

StoredCells(row) ==
  { [key |-> row.key, fam |-> c.fam, qual |-> c.qual, val |-> c.val] : c \in row.cells }

RECURSIVE ApplyRows(_, _)
\* table.mutate_rows applies the rows in the order the batcher queued them
ApplyRows(st, rows) ==
  IF rows = <<>> THEN st
  ELSE ApplyRows(WriteCells(st, StoredCells(Head(rows))), Tail(rows))

NoLimit == [set |-> FALSE, n |-> 0]
Limit(n) == [set |-> TRUE, n |-> n]

NoSummary == [printed |-> FALSE, written |-> 0, skipped |-> 0]

NoLine == [line |-> Blank, flushRaised |-> FALSE]

\* a handler that swallows the exception without counting the line
OnExceptionUncounted(w, s) == [written |-> w, skipped |-> s, lpc |-> "loop"]

\* a handler that counts the line and lets the exception end the load
OnExceptionAborts(w, s) == [written |-> w, skipped |-> s + 1, lpc |-> "raised"]

\* bigtable_load.py:101-103: the handler counts the line as skipped and the
\* loop goes on
OnException(w, s) == [written |-> w, skipped |-> s + 1, lpc |-> "loop"]

\* bigtable_load.py:99, reached when batch.mutate returned
OnQueued(w, s) == [written |-> w + 1, skipped |-> s, lpc |-> "loop"]

-----------------------------------------------------------------------------
(* SpecLoad: one call of load_jsonl *)

\* 2024-01-01T00:00:00Z in seconds
LoadSec == {1704067200}

Stored(ts, sid, hr, temp, spo2, battery) ==
  Json(Event(ts, sid, JFloat(Fin(hr)), JFloat(Fin(temp)),
             ("spO2" :> spo2) @@ ("battery_level" :> battery)))

\* the lines the input file is made of: records as ingest.py writes them,
\* records of other producers, and lines that are no record
LoadLines ==
  { Blank, Garbage, Json(JInt(5)),
    Json(Without(GoodEvent, "sensor_id")), Json(Without(GoodEvent, "event_timestamp")),
    Json(Event(JStr(S_abc), JStr(S_s1), GoodHr, GoodTemp, NoMore)),
    Json(Event(JStr(<<>>), JStr(S_s1), GoodHr, GoodTemp, NoMore)),
    Json(Event(AtStart, JStr(<<115, 55296>>), GoodHr, GoodTemp, NoMore)) }
  \cup UNION { { Stored(IsoZ(sec, 0), JStr(S_s1), 72000, 37100, JInt(98), JNull),
                 Stored(IsoZ(sec, 0), JStr(S_s1), 80000, 36500, JNull, JInt(55)),
                 Stored(IsoZ(sec, 1), JStr(S_s1), 72000, 37100, JNull, JNull),
                 Stored(IsoZ(sec, 0), JStr(S_s2), 72000, 37100, JInt(98), JNull),
                 Json(Event(IsoStr(sec, 0, "naive", 0), JStr(S_s1), JInt(60), GoodTemp,
                            "spo2" :> JInt(97))) } : sec \in LoadSec }

\* the row of each line, computed once
RowOf == [line \in LoadLines |-> BuildRow(line)]

IdleLoad ==
  /\ lpc = "idle" /\ i = 0 /\ limit = NoLimit /\ written = 0 /\ skipped = 0
  /\ batch = <<>> /\ store = {} /\ summary = NoSummary /\ cur = NoLine
  /\ nonblank = 0 /\ applied = <<>> /\ flushedN = 0

\* bigtable_load.py:58-60
LInit ==
  /\ lpc = "loop"
  /\ i = 0
  /\ limit \in {NoLimit} \cup { Limit(n) : n \in 1..MaxLimit }
  /\ written = 0
  /\ skipped = 0
  /\ batch = <<>>
  /\ store = {}
  /\ summary = NoSummary
  /\ cur = NoLine
  /\ nonblank = 0
  /\ applied = <<>>
  /\ flushedN = 0

\* bigtable_load.py:64
LimitReached == limit.set /\ written >= limit.n

\* the loop body is entered on another line of the file
Entered == lpc = "loop" /\ i < MaxLines /\ ~ LimitReached

Counted(c) == written' = c.written /\ skipped' = c.skipped /\ lpc' = c.lpc

\* bigtable_load.py:64-65
LBreak ==
  /\ UNCHANGED <<kvars, ivars>>
  /\ lpc = "loop" /\ i < MaxLines /\ LimitReached
  /\ i' = i + 1
  /\ lpc' = "flush"
  /\ UNCHANGED <<limit, written, skipped, batch, store, summary, cur, nonblank,
                 applied, flushedN>>

\* bigtable_load.py:67-69
LBlank ==
  /\ UNCHANGED <<kvars, ivars>>
  /\ Entered
  /\ \E line \in LoadLines : line.k = "blank" /\ cur' = [line |-> line, flushRaised |-> FALSE]
  /\ i' = i + 1
  /\ UNCHANGED <<lpc, limit, written, skipped, batch, store, summary, nonblank,
                 applied, flushedN>>

\* bigtable_load.py:72-96 raises: the handler of line 101 runs
LSkip ==
  /\ UNCHANGED <<kvars, ivars>>
  /\ Entered
  /\ \E line \in LoadLines :
       /\ line.k # "blank" /\ RowOf[line].raised
       /\ cur' = [line |-> line, flushRaised |-> FALSE]
  /\ i' = i + 1
  /\ nonblank' = nonblank + 1
  /\ Counted(OnException(written, skipped))
  /\ UNCHANGED <<limit, batch, store, summary, applied, flushedN>>

\* batch.mutate(row) queues the row, below the flush count
LQueue ==
  /\ UNCHANGED <<kvars, ivars>>
  /\ Entered
  /\ Len(batch) + 1 < FlushCount
  /\ \E line \in LoadLines :
       LET row == RowOf[line] IN
         /\ line.k # "blank" /\ ~ row.raised
         /\ cur' = [line |-> line, flushRaised |-> FALSE]
         /\ batch' = Append(batch, row)
  /\ i' = i + 1
  /\ nonblank' = nonblank + 1
  /\ Counted(OnQueued(written, skipped))
  /\ UNCHANGED <<limit, store, summary, applied, flushedN>>

\* batch.mutate(row) queues the row, reaches the flush count and flushes
LQueueFlush ==
  /\ UNCHANGED <<kvars, ivars>>
  /\ Entered
  /\ Len(batch) + 1 >= FlushCount
  /\ \E line \in LoadLines :
       LET row == RowOf[line]
           rows == Append(batch, row)
       IN   /\ line.k # "blank" /\ ~ row.raised
            /\ cur' = [line |-> line, flushRaised |-> FALSE]
            /\ store' = ApplyRows(store, rows)
            /\ applied' = applied \o rows
            /\ flushedN' = flushedN + Len(rows)
  /\ batch' = <<>>
  /\ i' = i + 1
  /\ nonblank' = nonblank + 1
  /\ Counted(OnQueued(written, skipped))
  /\ UNCHANGED <<limit, summary>>

\* batch.mutate(row) queues the row and the flush it starts raises, after the
\* table applied some of the rows: the batcher keeps its rows, and the
\* exception reaches the handler of line 101
LQueueFlushRaises ==
  /\ UNCHANGED <<kvars, ivars>>
  /\ Entered
  /\ Len(batch) + 1 >= FlushCount
  /\ \E line \in LoadLines :
       LET row == RowOf[line]
           rows == Append(batch, row)
       IN   /\ line.k # "blank" /\ ~ row.raised
            /\ cur' = [line |-> line, flushRaised |-> TRUE]
            /\ batch' = rows
            /\ \E n \in 0..Len(rows) :
                 /\ store' = ApplyRows(store, SubSeq(rows, 1, n))
                 /\ applied' = applied \o SubSeq(rows, 1, n)
  /\ i' = i + 1
  /\ nonblank' = nonblank + 1
  /\ Counted(OnException(written, skipped))
  /\ UNCHANGED <<limit, summary, flushedN>>

\* the for loop of line 63 runs out of lines
LEof ==
  /\ UNCHANGED <<kvars, ivars>>
  /\ lpc = "loop" /\ ~ (i < MaxLines /\ LimitReached)
  /\ lpc' = "flush"
  /\ UNCHANGED <<i, limit, written, skipped, batch, store, summary, cur, nonblank,
                 applied, flushedN>>

\* bigtable_load.py:105-106
LFinalFlush ==
  /\ UNCHANGED <<kvars, ivars>>
  /\ lpc = "flush"
  /\ store' = ApplyRows(store, batch)
  /\ applied' = applied \o batch
  /\ flushedN' = flushedN + Len(batch)
  /\ batch' = <<>>
  /\ summary' = [printed |-> TRUE, written |-> written, skipped |-> skipped]
  /\ lpc' = "done"
  /\ UNCHANGED <<i, limit, written, skipped, cur, nonblank>>

\* bigtable_load.py:105 raises: line 106 is not reached
LFinalFlushRaises ==
  /\ UNCHANGED <<kvars, ivars>>
  /\ lpc = "flush"
  /\ batch # <<>>
  /\ \E n \in 0..Len(batch) :
       /\ store' = ApplyRows(store, SubSeq(batch, 1, n))
       /\ applied' = applied \o SubSeq(batch, 1, n)
  /\ lpc' = "raised"
  /\ UNCHANGED <<i, limit, written, skipped, batch, summary, cur, nonblank, flushedN>>

-----------------------------------------------------------------------------
(* The specifications *)

KNext == KPick \/ KEncode

INext == IBlank \/ ISkip \/ IEmit \/ ICrash \/ IEof

LNext ==
  \/ LBreak \/ LBlank \/ LSkip \/ LQueue \/ LQueueFlush \/ LQueueFlushRaises
  \/ LEof \/ LFinalFlush \/ LFinalFlushRaises

InitKey == KInit /\ IdleIngest /\ IdleLoad
InitIngest == IInit /\ IdleKey /\ IdleLoad
InitLoad == LInit /\ IdleKey /\ IdleIngest

SpecKey == InitKey /\ [][KNext]_vars

SpecIngest == InitIngest /\ [][INext]_vars

SpecLoad == InitLoad /\ [][LNext]_vars

-----------------------------------------------------------------------------
(* Row-key ordering *)

\* C1: for one sensor and two timestamps T1 < T2, the row key built for T2 is
\* strictly smaller, as bytes, than the row key built for T1.
C1_NewerKeySortsFirst == kpc = "done" => BytesLess(kKey2, kKey1)

-----------------------------------------------------------------------------
(* The validator *)

\* C3: no input line ends the validator: every line read was emitted or skipped
\* (or was blank), and the loop is left only at the end of the input.
C3_ValidatorNeverAborts ==
  /\ ipc # "crash"
  /\ \A n \in 1..Len(ilog) : ilog[n].res \in {"blank", "skip", "emit"}

TempLine(t) == Json(Event(AtStart, GoodSensor, GoodHr, JFloat(t), NoMore))

\* C4: every emitted event has a finite heart_rate and a finite body_temperature
\* within [25.0, 45.0]; 25.0 and 45.0 are accepted, values outside and non-finite
\* values are never emitted.
C4_EmittedVitalsFinite ==
  /\ \A n \in 1..Len(outp) :
       LET hr == outp[n].fields["heart_rate"].x
           temp == outp[n].fields["body_temperature"].x
       IN /\ IsFinite(hr)
          /\ IsFinite(temp)
          /\ temp.milli >= MIN_TEMP_C
          /\ temp.milli <= MAX_TEMP_C
  /\ \A n \in 1..Len(ilog) :
       /\ ilog[n].line \in {TempLine(Fin(MIN_TEMP_C)), TempLine(Fin(MAX_TEMP_C))}
            => ilog[n].res = "emit"
       /\ ilog[n].line \in {TempLine(Fin(MIN_TEMP_C - 1)), TempLine(Fin(MAX_TEMP_C + 1)),
                            TempLine(NaN), TempLine(PosInf), TempLine(NegInf)}
            => ilog[n].res # "emit"

\* a line that is valid whatever its timestamp ts says
TimedLine(ts) == Json(Event(ts, GoodSensor, GoodHr, GoodTemp, NoMore))

EmittedInstant(ev) == <<ev.fields["event_timestamp"].sec, ev.fields["event_timestamp"].micro>>

OneMicroAfter(t) == <<t[1], t[2] + 1>>

\* C5: every line is compared against the one snapshot taken at the start: an
\* otherwise valid event at the snapshot is emitted, one a microsecond later is
\* skipped, and no emitted event is later than the snapshot, however far the
\* clock has gone on since.
C5_SingleSnapshot ==
  \A n \in 1..Len(ilog) :
    /\ ilog[n].res = "emit" => ~ InstantLess(time_now_utc, EmittedInstant(ilog[n].ev))
    /\ \A ts \in { x \in IngestTimestamps : x.t = "iso" } :
         ilog[n].line = TimedLine(ts) =>
           /\ ToUtc(ts) = time_now_utc => ilog[n].res = "emit"
           /\ ToUtc(ts) = OneMicroAfter(time_now_utc) => ilog[n].res = "skip"

\* the second line read is dated one microsecond after the snapshot, which the
\* clock has reached by then, and is skipped after an event at the snapshot
\* was emitted
C5_Witness ==
  /\ Len(ilog) = 2
  /\ ilog[1].line = TimedLine(AtStart) /\ ilog[1].res = "emit"
  /\ ilog[2].line = TimedLine(IsoZ(Start[1], Start[2] + 1)) /\ ilog[2].res = "skip"
  /\ ~ InstantLess(clock, OneMicroAfter(time_now_utc))

Spo2Given(line) ==
  /\ line.k = "json" /\ line.v.t = "obj"
  /\ Get(line.v, "spO2") # JNull \/ Get(line.v, "spo2") # JNull

\* C7: an oxygen saturation given under either key, spO2 or spo2, is carried
\* into the emitted event as spO2, and the loader writes a v:spo2 cell for it.
C7_EitherSpellingCarried ==
  \A n \in 1..Len(ilog) :
    (ilog[n].res = "emit" /\ Spo2Given(ilog[n].line)) =>
      /\ ilog[n].ev.fields["spO2"] # JNull
      /\ \E c \in RowCells(ilog[n].ev) : c.fam = "v" /\ c.qual = "spo2"

-----------------------------------------------------------------------------
(* The loader *)

Writers(key, fam, qual) ==
  { m \in 1..Len(applied) :
      applied[m].key = key /\ \E d \in applied[m].cells : d.fam = fam /\ d.qual = qual }

LastWriter(key, fam, qual) ==
  CHOOSE m \in Writers(key, fam, qual) : \A k \in Writers(key, fam, qual) : k <= m

ValueOf(row, fam, qual) ==
  (CHOOSE d \in row.cells : d.fam = fam /\ d.qual = qual).val

\* C2: events with the same (sensor_id, event_timestamp) get the same row key,
\* and once applied the table holds for that key one row, each of whose cells
\* holds the one value written by the last applied row that set it.
C2_LastWriteWins ==
  /\ \A m, n \in 1..Len(applied) :
       (applied[m].sid = applied[n].sid /\ applied[m].ts = applied[n].ts)
         => applied[m].key = applied[n].key
  /\ \A n \in 1..Len(applied) : \A c \in applied[n].cells :
       { x \in store : x.key = applied[n].key /\ x.fam = c.fam /\ x.qual = c.qual }
         = { [key |-> applied[n].key, fam |-> c.fam, qual |-> c.qual,
              val |-> ValueOf(applied[LastWriter(applied[n].key, c.fam, c.qual)],
                              c.fam, c.qual)] }
  /\ \A x \in store : Writers(x.key, x.fam, x.qual) # {}

\* two events of one sensor and timestamp with different vitals were applied,
\* the first with an spO2 the second lacks
C2_Witness ==
  /\ lpc = "done"
  /\ \E m, n \in 1..Len(applied) :
       /\ m < n
       /\ applied[m].sid = applied[n].sid /\ applied[m].ts = applied[n].ts
       /\ ValueOf(applied[m], "v", "hr") # ValueOf(applied[n], "v", "hr")
       /\ Writers(applied[n].key, "v", "spo2") = {m}

C8_SummaryAlwaysEmitted ==
  lpc \in {"done", "raised"} =>
    /\ summary.printed
    /\ summary.written = written
    /\ summary.skipped = skipped

\* a line whose row cannot be built: no JSON, no object, no sensor_id or
\* event_timestamp, a timestamp that is no ISO date-time, text that does not encode
LineFails(line) ==
  \/ line.k = "garbage"
  \/ /\ line.k = "json"
     /\ \/ line.v.t # "obj"
        \/ "sensor_id" \notin Keys(line.v)
        \/ "event_timestamp" \notin Keys(line.v)
        \/ line.v.fields["event_timestamp"].t # "iso"
        \/ EncodeRaises(PyStr(line.v.fields["sensor_id"]))

\* C9: when building or queuing the row of a line fails, skipped grows by one,
\* written stays, and the loop goes on to the next line.
C9_FailureIsolated ==
  [][ (nonblank' = nonblank + 1 /\ (LineFails(cur'.line) \/ cur'.flushRaised))
        => (skipped' = skipped + 1 /\ written' = written /\ lpc' = "loop") ]_vars

\* a line failed after another was written, and the loop is still running
C9_Witness ==
  /\ lpc = "loop"
  /\ LineFails(cur.line)
  /\ skipped = 1
  /\ written >= 1
  /\ i < MaxLines

\* C10: written never exceeds the number of events whose rows a flush has sent.
C10_WrittenOnlyAfterFlush == written <= flushedN

=============================================================================
